---- MODULE Spec2Model ----
(***************************************************************************)
(* Model of create_instagram_agent.py: the run of main() as a state        *)
(* machine (setup, scrape, history load, generation, output, angle         *)
(* recording, webhook), with scrape_article's title resolution and         *)
(* generate_instagram_post's normalisation as operators.                   *)
(*                                                                         *)
(* Strings that the code inspects character by character (URLs, captions,  *)
(* titles) are sequences of one-character strings.  Angle descriptions are *)
(* only compared for equality and emptiness and are atomic strings.        *)
(* An optional value (a dict key that may be missing, a Python None) is    *)
(* None == <<>> or Some(v) == <<v>>.                                       *)
(*                                                                         *)
(* Not modelled, because nothing below reads them: the heading structure,  *)
(* body content and tags of the article record, the image URL resolution   *)
(* (the record's image_url is an input), and the text of the prompt (the   *)
(* model's reply is an unconstrained input).                               *)
(***************************************************************************)
EXTENDS Integers, Sequences, FiniteSets, TLC

VARIABLES
    pc,         \* position of the run in main(), or of a function harness
    exit,       \* "running", "ok" (falls off main), "fail" (sys.exit(1)), "crash" (uncaught exception)
    args,       \* [url, deliver]: args.url and (args.webhook and not args.dry_run)
    keyOk,      \* get_api_key() returned a non-empty key
    doc,        \* the parsed HTML document scrape_article sees
    article,    \* data: the article record, [ok |-> FALSE] when scrape_article returned None
    file,       \* instagram_post_history.json on disk
    fileAtStart,\* the file as it was when the run began
    history,    \* the dict returned by load_history, mutated in place by main
    loaded,     \* the dict as load_history returned it
    reply,      \* what model.generate_content answered
    result,     \* what generate_instagram_post returned, back-filled by main
    newAngle,   \* new_angle of main
    appended,   \* main appended new_angle to history[args.url]
    eff         \* the run's external calls and side effects so far

vars == <<pc, exit, args, keyOk, doc, article, file, fileAtStart, history,
          loaded, reply, result, newAngle, appended, eff>>

----------------------------------------------------------------------------
(* Bounds *)

MaxUrlLen == 2
MaxCapLen == 4
MaxLangLen == 5
MaxTextLen == 2

----------------------------------------------------------------------------
(* Values *)

None == <<>>
Some(v) == <<v>>
IsSome(o) == o # <<>>
Val(o) == o[1]
Opt(S) == {None} \cup {Some(v) : v \in S}

Strs(A, n) == UNION {[1..k -> A] : k \in 0..n}

EmptyDict == [u \in {} |-> <<>>]

Str_CaptionText == <<"C","a","p","t","i","o","n"," ","T","e","x","t",":">>
Str_CAPTION == <<"C","A","P","T","I","O","N",":">>
Str_Stars == <<"*","*">>
Str_Untitled == <<"U","n","t","i","t","l","e","d"," ","A","r","t","i","c","l","e">>
Str_en_gb == <<"e","n","-","g","b">>
Str_slash_en == <<"/","e","n","/">>
Str_dash_en == <<"-","e","n","-">>

----------------------------------------------------------------------------
(* Python string operations *)

\* sub in s
Contains(s, sub) ==
    \E i \in 1..(Len(s) - Len(sub) + 1) : SubSeq(s, i, i + Len(sub) - 1) = sub

\* s.replace(old, new): left to right, non-overlapping (an empty old only with an empty new)
RECURSIVE Replace(_, _, _)
Replace(s, old, new) ==
    IF old = <<>> /\ new = <<>> THEN s
    ELSE IF Len(s) < Len(old) THEN s
    ELSE IF SubSeq(s, 1, Len(old)) = old
         THEN new \o Replace(SubSeq(s, Len(old) + 1, Len(s)), old, new)
         ELSE <<Head(s)>> \o Replace(Tail(s), old, new)

IsSpace(c) == c = " "

RECURSIVE LStrip(_)
LStrip(s) == IF s # <<>> /\ IsSpace(Head(s)) THEN LStrip(Tail(s)) ELSE s

RECURSIVE RStrip(_)
RStrip(s) ==
    IF s # <<>> /\ IsSpace(s[Len(s)]) THEN RStrip(SubSeq(s, 1, Len(s) - 1)) ELSE s

\* s.strip()
Strip(s) == RStrip(LStrip(s))

----------------------------------------------------------------------------
(* scrape_article *)

\* `not x` for a value that is None or a string
FalsyStr(o) == o = None \/ Val(o) = <<>>

\* lines 82-88: <title> string, overridden by the first h1, else the literal
TitleFromTags(d) ==
    LET title == IF IsSome(d.title_tag) THEN Val(d.title_tag) ELSE Some(<<>>)
    IN  IF IsSome(d.h1) THEN Some(Strip(Val(d.h1)))
        ELSE IF FalsyStr(title) THEN Some(Str_Untitled)
        ELSE title

\* lines 115-118: an og:title meta tag overrides whatever was found
ResolveTitle(d) ==
    IF IsSome(d.og_title) THEN Val(d.og_title) ELSE TitleFromTags(d)

NoArticle == [ok |-> FALSE, url |-> <<>>, title |-> None, image_url |-> ""]

\* the record returned on success (lines 139-146); None on any exception (147-149)
scrape_article(url, fetched, d) ==
    IF ~fetched THEN NoArticle
    ELSE [ok |-> TRUE, url |-> url, title |-> ResolveTitle(d), image_url |-> d.image]

----------------------------------------------------------------------------
(* generate_instagram_post *)

NoPost == [kind |-> "absent", caption_text |-> None, angle_description |-> None]

EmptyObj == [post_text |-> None, caption_text |-> None, angle_description |-> None,
             instagram_post |-> NoPost, language |-> None, article_url |-> None,
             image_url |-> None, title |-> None]

NoneResult == [kind |-> "none", obj |-> EmptyObj]

\* a dict with no key at all
IsEmptyObj(o) == o = EmptyObj

\* lines 157-159
TargetLang(url) ==
    IF Contains(url, Str_en_gb) \/ Contains(url, Str_slash_en) \/ Contains(url, Str_dash_en)
    THEN "en" ELSE "sv"

\* lines 211-213: content_source = data.get('instagram_post', data) and its caption_text
NestedCaption(data) ==
    LET ip == data.instagram_post
    IN  IF ip.kind = "absent" THEN data.caption_text
        ELSE IF ip.kind = "object" THEN ip.caption_text
        ELSE None

\* lines 210-213 looking into the nested object first
CaptionSource_NestedFirst(data) ==
    IF IsSome(NestedCaption(data)) THEN NestedCaption(data) ELSE data.post_text

\* lines 210-213: the caption that ends up under post_text before cleaning
CaptionSource(data) ==
    IF IsSome(data.post_text) THEN data.post_text ELSE NestedCaption(data)

\* lines 220-222
StripGarbage(text) ==
    Replace(Replace(Replace(text, Str_CaptionText, <<>>), Str_CAPTION, <<>>), Str_Stars, <<>>)

\* lines 227-228
RemoveUrl(text, url) ==
    IF Contains(text, url) THEN Replace(text, url, <<>>) ELSE text

\* lines 217-230
CleanCaption(text, url) == Strip(RemoveUrl(StripGarbage(text), url))

\* lines 216-233 on the normalised dict
PostProcess(data, url) ==
    LET src == CaptionSource(data)
    IN  IF IsSome(src)
        THEN [data EXCEPT !.post_text = Some(CleanCaption(Val(src), url)),
                          !.language = Some(TargetLang(url))]
        ELSE data

\* lines 202-239: every exception (transport, json.loads, a reply that is no
\* JSON object) is caught and None returned
generate_instagram_post(art, r) ==
    IF r.kind # "object" THEN NoneResult
    ELSE [kind |-> "dict", obj |-> PostProcess(r.obj, art.url)]

----------------------------------------------------------------------------
(* load_history, save_history *)

MissingFile == [kind |-> "missing", content |-> EmptyDict]
BadJsonFile == [kind |-> "badjson", content |-> EmptyDict]
UnreadableFile == [kind |-> "unreadable", content |-> EmptyDict]
JsonFile(h) == [kind |-> "json", content |-> h]

\* lines 48-56.  A missing file and a JSONDecodeError give {}; open() failing
\* (OSError) or bytes that are no UTF-8 (UnicodeDecodeError) are not caught.
load_history(f) ==
    IF f.kind = "missing" THEN [raised |-> FALSE, value |-> EmptyDict]
    ELSE IF f.kind = "json" THEN [raised |-> FALSE, value |-> f.content]
    ELSE IF f.kind = "badjson" THEN [raised |-> FALSE, value |-> EmptyDict]
    ELSE [raised |-> TRUE, value |-> EmptyDict]

SaveOutcomes == {"ok", "open_failed", "write_failed"}

\* lines 58-64.  open(..., 'w') truncates; a failure of open leaves the file as
\* it was, a failure while dumping leaves a truncated document.
save_history(f, h, outcome) ==
    IF outcome = "ok" THEN JsonFile(h)
    ELSE IF outcome = "open_failed" THEN f
    ELSE BadJsonFile

----------------------------------------------------------------------------
(* main *)

Range(q) == {q[i] : i \in 1..Len(q)}

\* line 270 without the check
GenFailed_Never(res) == FALSE

\* line 270: `not result`
GenFailed(res) == res.kind = "none" \/ IsEmptyObj(res.obj)

\* `not result.get(k)` for a string-valued key
FalsyKey(o) == o = None \/ Val(o) = <<>>

\* lines 275-282
BackFill(res, url, art) ==
    LET o == res.obj
    IN  [res EXCEPT !.obj =
           [o EXCEPT !.article_url = IF FalsyKey(o.article_url) THEN Some(url) ELSE @,
                     !.image_url = IF o.image_url = None \/ Val(o.image_url) = ""
                                   THEN Some(art.image_url) ELSE @,
                     !.title = IF o.title = None \/ FalsyStr(Val(o.title))
                               THEN Some(art.title) ELSE @]]

\* truthiness of result.get('instagram_post')
PostTruthy(ip) ==
    \/ ip.kind = "scalar"
    \/ ip.kind = "object" /\ (IsSome(ip.caption_text) \/ IsSome(ip.angle_description))

\* lines 290-293: post_data = result.get('instagram_post') or result
AngleOf(o) ==
    LET ip == o.instagram_post
    IN  IF PostTruthy(ip)
        THEN IF ip.kind = "object" THEN ip.angle_description ELSE Some("")
        ELSE o.angle_description

\* `if new_angle:`
AngleTruthy(a) == IsSome(a) /\ Val(a) # ""

\* lines 296-297
SetDefault(h, url) ==
    IF url \in DOMAIN h THEN h ELSE [u \in DOMAIN h \cup {url} |-> IF u = url THEN <<>> ELSE h[u]]

\* line 299 without the membership test
IsNewAngle_Always(h, url, angle) == TRUE

\* line 299
IsNewAngle(h, url, angle) == angle \notin Range(h[url])

\* line 300 assigning a fresh list instead of appending
AppendAngle_Overwrite(h, url, angle) == [h EXCEPT ![url] = <<angle>>]

\* line 300
AppendAngle(h, url, angle) == [h EXCEPT ![url] = Append(@, angle)]

NoEff == [scrape |-> 0, load |-> 0, gen |-> 0, save |-> 0, post |-> 0,
          emitted |-> FALSE, scrapeOk |-> FALSE, genOk |-> FALSE,
          written |-> FALSE, hook |-> "none"]

NoDoc == [title_tag |-> None, h1 |-> None, og_title |-> None, image |-> ""]
NoReply == [kind |-> "none", obj |-> EmptyObj]

----------------------------------------------------------------------------
(* Inputs of the run *)

Angles == {"health angle", "cost angle"}

EnUrl == <<"/","e","n","/">>
SvUrl == <<"/","s","v","/">>
RunUrls == {EnUrl, SvUrl}
RunArgs == [url : RunUrls, deliver : BOOLEAN]

RunDocs ==
    { [title_tag |-> Some(Some(<<"t">>)), h1 |-> Some(<<" ","h"," ">>),
       og_title |-> Some(Some(<<"o">>)), image |-> "https://cdn/x.jpg"],
      NoDoc }

RunCaption == <<"*","*","H","i"," ">> \o EnUrl
RunCaption2 == <<"Y","o">>

RunPosts ==
    {NoPost,
     [kind |-> "null", caption_text |-> None, angle_description |-> None],
     [kind |-> "scalar", caption_text |-> None, angle_description |-> None]}
    \cup [kind : {"object"}, caption_text : Opt({RunCaption2}),
          angle_description : Opt(Angles \cup {""})]

RunIds ==
    { [article_url |-> None, image_url |-> None, title |-> None],
      [article_url |-> Some(<<"m">>), image_url |-> Some("https://m/y.jpg"),
       title |-> Some(Some(<<"M">>))],
      [article_url |-> None, image_url |-> Some(""), title |-> Some(None)] }

Obj(pt, ct, ad, ip, lang, ids) ==
    [post_text |-> pt, caption_text |-> ct, angle_description |-> ad,
     instagram_post |-> ip, language |-> lang, article_url |-> ids.article_url,
     image_url |-> ids.image_url, title |-> ids.title]

\* a top-level caption_text is only read when there is no instagram_post key
RunObjs ==
    { Obj(pt, None, ad, ip, None, ids) :
        pt \in Opt({RunCaption}), ad \in Opt(Angles \cup {""}),
        ip \in RunPosts, ids \in RunIds }
    \cup
    { Obj(pt, Some(RunCaption2), ad, NoPost, None, ids) :
        pt \in Opt({RunCaption}), ad \in Opt(Angles \cup {""}), ids \in RunIds }

FailedReplies ==
    { [kind |-> k, obj |-> EmptyObj] : k \in {"transport_error", "not_json", "not_object"} }

RunReplies == FailedReplies \cup { [kind |-> "object", obj |-> o] : o \in RunObjs }

NoDup(q) == \A i, j \in 1..Len(q) : q[i] = q[j] => i = j

AngleLists == { q \in Strs(Angles, Cardinality(Angles)) : NoDup(q) }

Histories == UNION { [D -> AngleLists] : D \in SUBSET RunUrls }

InitFiles == {MissingFile, BadJsonFile, UnreadableFile} \cup { JsonFile(h) : h \in Histories }

----------------------------------------------------------------------------
(* The run *)

Init ==
    /\ pc = "setup"
    /\ exit = "running"
    /\ args \in RunArgs
    /\ keyOk \in BOOLEAN
    /\ doc = NoDoc
    /\ article = NoArticle
    /\ file \in InitFiles
    /\ fileAtStart = file
    /\ history = EmptyDict
    /\ loaded = EmptyDict
    /\ reply = NoReply
    /\ result = NoneResult
    /\ newAngle = Some("")
    /\ appended = FALSE
    /\ eff = NoEff

\* lines 248-252
Setup ==
    /\ pc = "setup"
    /\ pc' = IF keyOk THEN "scrape" ELSE "exit"
    /\ exit' = IF keyOk THEN exit ELSE "fail"
    /\ UNCHANGED <<args, keyOk, doc, article, file, fileAtStart, history, loaded,
                   reply, result, newAngle, appended, eff>>

\* lines 254-261
Scrape ==
    /\ pc = "scrape"
    /\ \E fetched \in BOOLEAN, d \in RunDocs :
        /\ doc' = IF fetched THEN d ELSE NoDoc
        /\ article' = scrape_article(args.url, fetched, d)
    /\ eff' = [eff EXCEPT !.scrape = @ + 1, !.scrapeOk = article'.ok]
    /\ pc' = IF article'.ok THEN "load" ELSE "exit"
    /\ exit' = IF article'.ok THEN exit ELSE "fail"
    /\ UNCHANGED <<args, keyOk, file, fileAtStart, history, loaded, reply, result,
                   newAngle, appended>>

\* lines 263-264
LoadHistory ==
    /\ pc = "load"
    /\ LET r == load_history(file)
       IN  /\ history' = r.value
           /\ loaded' = r.value
           /\ pc' = IF r.raised THEN "exit" ELSE "generate"
           /\ exit' = IF r.raised THEN "crash" ELSE exit
    /\ eff' = [eff EXCEPT !.load = @ + 1]
    /\ UNCHANGED <<args, keyOk, doc, article, file, fileAtStart, reply, result,
                   newAngle, appended>>

\* lines 266-272
Generate ==
    /\ pc = "generate"
    /\ \E r \in RunReplies :
        /\ reply' = r
        /\ result' = generate_instagram_post(article, r)
    /\ eff' = [eff EXCEPT !.gen = @ + 1,
                          !.genOk = result'.kind = "dict" /\ ~IsEmptyObj(result'.obj)]
    /\ pc' = IF GenFailed(result') THEN "exit" ELSE "output"
    /\ exit' = IF GenFailed(result') THEN "fail" ELSE exit
    /\ UNCHANGED <<args, keyOk, doc, article, file, fileAtStart, history, loaded,
                   newAngle, appended>>

\* lines 274-286
Output ==
    /\ pc = "output"
    /\ result' = BackFill(result, args.url, article)
    /\ eff' = [eff EXCEPT !.emitted = TRUE]
    /\ pc' = "record"
    /\ UNCHANGED <<exit, args, keyOk, doc, article, file, fileAtStart, history,
                   loaded, reply, newAngle, appended>>

\* lines 288-302
RecordAngle ==
    /\ pc = "record"
    /\ newAngle' = AngleOf(result.obj)
    /\ IF AngleTruthy(newAngle')
       THEN LET h == SetDefault(history, args.url)
            IN  IF IsNewAngle(h, args.url, Val(newAngle'))
                THEN /\ history' = AppendAngle(h, args.url, Val(newAngle'))
                     /\ appended' = TRUE
                     /\ \E outcome \in SaveOutcomes :
                          /\ file' = save_history(file, history', outcome)
                          /\ eff' = [eff EXCEPT !.save = @ + 1, !.written = outcome = "ok"]
                ELSE /\ history' = h
                     /\ UNCHANGED <<appended, file, eff>>
       ELSE UNCHANGED <<history, appended, file, eff>>
    /\ pc' = "webhook"
    /\ UNCHANGED <<exit, args, keyOk, doc, article, fileAtStart, loaded, reply, result>>

HookOutcomes == {"2xx", "other_status", "connection_error"}

\* lines 304-314, and the end of main
Webhook ==
    /\ pc = "webhook"
    /\ IF args.deliver
       THEN \E o \in HookOutcomes : eff' = [eff EXCEPT !.post = @ + 1, !.hook = o]
       ELSE UNCHANGED eff
    /\ pc' = "exit"
    /\ exit' = "ok"
    /\ UNCHANGED <<args, keyOk, doc, article, file, fileAtStart, history, loaded,
                   reply, result, newAngle, appended>>

\* the next invocation of the program, on the file the last one left
NewRun ==
    /\ pc = "exit"
    /\ pc' = "setup"
    /\ exit' = "running"
    /\ args' \in RunArgs
    /\ keyOk' \in BOOLEAN
    /\ doc' = NoDoc
    /\ article' = NoArticle
    /\ fileAtStart' = file
    /\ history' = EmptyDict
    /\ loaded' = EmptyDict
    /\ reply' = NoReply
    /\ result' = NoneResult
    /\ newAngle' = Some("")
    /\ appended' = FALSE
    /\ eff' = NoEff
    /\ UNCHANGED file

Next ==
    \/ Setup
    \/ Scrape
    \/ LoadHistory
    \/ Generate
    \/ Output
    \/ RecordAngle
    \/ Webhook
    \/ NewRun

Spec == Init /\ [][Next]_vars

----------------------------------------------------------------------------
(* generate_instagram_post on its own: every URL and caption up to a length *)

GenUrls == Strs({"a", "b"}, MaxUrlLen) \ {<<>>}
GenCaptions == Strs({"a", "b", " ", "*"}, MaxCapLen)
FewCaptions == {<<"a", "b">>}
FewAngles == {"health angle"}

ObjectPosts(caps, angles) ==
    [kind : {"object"}, caption_text : Opt(caps), angle_description : Opt(angles)]

OtherPosts ==
    {NoPost,
     [kind |-> "null", caption_text |-> None, angle_description |-> None],
     [kind |-> "scalar", caption_text |-> None, angle_description |-> None]}

NoIds == [article_url |-> None, image_url |-> None, title |-> None]

GenObjs ==
    { Obj(pt, None, None, ip, None, NoIds) :
        pt \in Opt(GenCaptions),
        ip \in OtherPosts \cup ObjectPosts(FewCaptions, FewAngles) }
    \cup
    { Obj(pt, None, None, ip, None, NoIds) :
        pt \in Opt(FewCaptions), ip \in ObjectPosts(GenCaptions, FewAngles) }
    \cup
    { Obj(None, ct, ad, NoPost, None, NoIds) :
        ct \in Opt(GenCaptions), ad \in Opt(FewAngles) }

GenReplies == FailedReplies \cup { [kind |-> "object", obj |-> o] : o \in GenObjs }

FnInit(urls, replies) ==
    /\ pc = "fn_generate"
    /\ exit = "running"
    /\ args \in [url : urls, deliver : {FALSE}]
    /\ keyOk = TRUE
    /\ doc = NoDoc
    /\ article = scrape_article(args.url, TRUE, NoDoc)
    /\ file = MissingFile
    /\ fileAtStart = file
    /\ history = EmptyDict
    /\ loaded = EmptyDict
    /\ reply \in replies
    /\ result = NoneResult
    /\ newAngle = Some("")
    /\ appended = FALSE
    /\ eff = NoEff

InitGen == FnInit(GenUrls, GenReplies)

GenerateFn ==
    /\ pc = "fn_generate"
    /\ result' = generate_instagram_post(article, reply)
    /\ pc' = "fn_generated"
    /\ UNCHANGED <<exit, args, keyOk, doc, article, file, fileAtStart, history,
                   loaded, reply, newAngle, appended, eff>>

NextGen == GenerateFn

SpecGen == InitGen /\ [][NextGen]_vars

(* the language rule: every URL over the markers' characters *)

LangUrls == Strs({"e", "n", "-", "/", "g", "b"}, MaxLangLen) \ {<<>>}

LangObjs ==
    { Obj(pt, None, ad, ip, lang, NoIds) :
        pt \in Opt(FewCaptions), ad \in Opt(FewAngles),
        ip \in {NoPost} \cup ObjectPosts(FewCaptions, {}),
        lang \in Opt({"en", "sv"}) }

LangReplies == FailedReplies \cup { [kind |-> "object", obj |-> o] : o \in LangObjs }

InitLang == FnInit(LangUrls, LangReplies)

SpecLang == InitLang /\ [][NextGen]_vars

----------------------------------------------------------------------------
(* scrape_article's title on its own: every document up to a text length *)

Texts == Strs({"x", " "}, MaxTextLen)

Docs ==
    [title_tag : Opt(Opt(Texts)), h1 : Opt(Texts), og_title : Opt(Opt(Texts)),
     image : {""}]

InitScrape ==
    /\ pc = "fn_scrape"
    /\ exit = "running"
    /\ args = [url |-> SvUrl, deliver |-> FALSE]
    /\ keyOk = TRUE
    /\ doc \in Docs
    /\ article = NoArticle
    /\ file = MissingFile
    /\ fileAtStart = file
    /\ history = EmptyDict
    /\ loaded = EmptyDict
    /\ reply = NoReply
    /\ result = NoneResult
    /\ newAngle = Some("")
    /\ appended = FALSE
    /\ eff = NoEff

ScrapeFn ==
    /\ pc = "fn_scrape"
    /\ article' = scrape_article(args.url, TRUE, doc)
    /\ pc' = "fn_scraped"
    /\ UNCHANGED <<exit, args, keyOk, doc, file, fileAtStart, history, loaded,
                   reply, result, newAngle, appended, eff>>

NextScrape == ScrapeFn

SpecScrape == InitScrape /\ [][NextScrape]_vars

----------------------------------------------------------------------------
(* Claims *)

Count(q, x) == Cardinality({i \in 1..Len(q) : q[i] = x})

AfterRecord == pc = "webhook" \/ (pc = "exit" /\ exit = "ok")

\* C1: no URL's angle list, in memory or in the persisted file, holds a string
\* twice; once main has recorded an angle, the run's URL lists it exactly once.
C1_NoDuplicateAngles ==
    /\ \A u \in DOMAIN history : NoDup(history[u])
    /\ file.kind = "json" => \A u \in DOMAIN file.content : NoDup(file.content[u])
    /\ AfterRecord /\ AngleTruthy(newAngle)
         => Count(history[args.url], Val(newAngle)) = 1

\* the angle was already listed for the URL when the run recorded it again
C1_Witness ==
    /\ AfterRecord /\ AngleTruthy(newAngle)
    /\ args.url \in DOMAIN loaded
    /\ Val(newAngle) \in Range(loaded[args.url])
    /\ Len(loaded[args.url]) = 2
    /\ Count(history[args.url], Val(newAngle)) = 1
    /\ file = JsonFile(history)

ScrapeFailed == eff.scrape = 1 /\ ~eff.scrapeOk
GenerationFailed == eff.gen = 1 /\ ~eff.genOk
NoSideEffect == ~eff.emitted /\ eff.save = 0 /\ eff.post = 0 /\ file = fileAtStart

\* C2: output, history write and webhook happen only after extraction and
\* generation succeeded; a failed scrape or generation ends the run with a
\* failure exit and none of them; no external call is made twice in a run.
C2_AllOrNothing ==
    /\ ~NoSideEffect => eff.scrapeOk /\ eff.genOk
    /\ ScrapeFailed \/ GenerationFailed => pc = "exit" /\ exit = "fail" /\ NoSideEffect
    /\ ScrapeFailed => eff.load = 0 /\ eff.gen = 0
    /\ eff.scrape <= 1 /\ eff.gen <= 1 /\ eff.post <= 1 /\ eff.save <= 1

\* generation failed on a reply that is no JSON, with a history file in place
C2_Witness ==
    /\ pc = "exit" /\ exit = "fail"
    /\ eff.scrapeOk /\ GenerationFailed /\ reply.kind = "not_json"
    /\ fileAtStart.kind = "json" /\ args.deliver
    /\ NoSideEffect

TopCaption(o) == o.post_text
PostCaption(o) ==
    IF o.instagram_post.kind = "object" THEN o.instagram_post.caption_text ELSE None

C4_NoRawUrl ==
    pc = "fn_generated" /\ result.kind = "dict" /\ IsSome(result.obj.post_text)
    => ~Contains(Val(result.obj.post_text), article.url)

HasEnglishMarker(url) ==
    \E m \in {Str_en_gb, Str_slash_en, Str_dash_en} : Contains(url, m)

\* C5: every returned result carries language, "en" exactly when the URL holds
\* en-gb, /en/ or -en-, "sv" otherwise, whatever the shape of the reply.
C5_LanguageAttached ==
    pc = "fn_generated" /\ result.kind = "dict" /\ ~GenFailed(result)
    => result.obj.language =
         Some(IF HasEnglishMarker(article.url) THEN "en" ELSE "sv")

\* C6: load_history never raises; a missing, corrupt, unreadable or unparseable
\* file gives an empty mapping and the run goes on to generation.
C6_LoadNeverRaises ==
    eff.load = 1
    => /\ exit # "crash"
       /\ fileAtStart.kind # "json" => loaded = EmptyDict

NonEmptyText(o) == IsSome(o) /\ Val(o) # <<>>

\* the first non-empty of og:title, h1 text, <title> text, the literal
FirstNonEmptyTitle(d) ==
    LET og == IF IsSome(d.og_title) THEN Val(d.og_title) ELSE None
        h1 == IF IsSome(d.h1) THEN Some(Strip(Val(d.h1))) ELSE None
        tt == IF IsSome(d.title_tag) THEN Val(d.title_tag) ELSE None
    IN  IF NonEmptyText(og) THEN og
        ELSE IF NonEmptyText(h1) THEN h1
        ELSE IF NonEmptyText(tt) THEN tt
        ELSE Some(Str_Untitled)

\* C7: the extracted title is the first non-empty of og:title, first h1,
\* <title>, "Untitled Article", and so never empty.
C7_TitleFirstNonEmpty ==
    pc = "fn_scraped"
    => article.title = FirstNonEmptyTitle(doc) /\ NonEmptyText(article.title)

\* C8: only a missing credential, a failed extraction and a failed generation
\* end the run badly; with both succeeded the JSON is printed and the run ends
\* with success whatever the history and the webhook did.
C8_OnlyExtractionGenerationFatal ==
    /\ pc = "exit" /\ exit # "ok" => ~keyOk \/ ScrapeFailed \/ GenerationFailed
    /\ pc = "exit" /\ eff.scrapeOk /\ eff.genOk => eff.emitted /\ exit = "ok"

CaptionAtTop(o) ==
    IsSome(o.post_text) \/ (o.instagram_post.kind = "absent" /\ IsSome(o.caption_text))
CaptionInPost(o) == ~IsSome(o.post_text) /\ IsSome(PostCaption(o))

\* C9: after a successful run the angle_description found beside the caption
\* (in instagram_post when the caption came from there, at top level when it
\* came from there) is, if non-empty, in the history list of the run's URL.
C9_AngleRecorded ==
    pc = "exit" /\ exit = "ok"
    => LET o == reply.obj
           a == IF CaptionAtTop(o) THEN o.angle_description
                ELSE o.instagram_post.angle_description
       IN  (CaptionAtTop(o) \/ CaptionInPost(o)) /\ AngleTruthy(a)
           => args.url \in DOMAIN history /\ Val(a) \in Range(history[args.url])

PriorAngles == IF args.url \in DOMAIN loaded THEN loaded[args.url] ELSE <<>>

\* C10: a run reads the history once and writes the file at most once, only
\* when it appended its angle; the file then holds the loaded history with that
\* one angle appended to the URL's list and everything else as it was.
C10_HistoryFrame ==
    /\ eff.load <= 1 /\ eff.save <= 1
    /\ AfterRecord => eff.load = 1
    /\ eff.save = 0 => file = fileAtStart
    /\ eff.save = 1 <=> appended
    /\ appended => AngleTruthy(newAngle) /\ Val(newAngle) \notin Range(PriorAngles)
    /\ eff.written =>
        /\ file.kind = "json"
        /\ DOMAIN file.content = DOMAIN loaded \cup {args.url}
        /\ \A u \in DOMAIN loaded \ {args.url} : file.content[u] = loaded[u]
        /\ file.content[args.url] = Append(PriorAngles, Val(newAngle))

\* a write on a history that already had an angle for this URL and a list for
\* the other one
C10_Witness ==
    /\ AfterRecord /\ eff.written
    /\ DOMAIN loaded = RunUrls
    /\ Len(loaded[args.url]) = 1
    /\ \E u \in RunUrls \ {args.url} : Len(loaded[u]) = 2

====
